---- MODULE Spec2Model ----
(***************************************************************************)
(* bip39-shard: split a BIP39 seed phrase into Shamir shards and recover   *)
(* it (src/src/main.rs).  main.rs binds two crates: bip39 (mnemonic codec)  *)
(* and sharks (Shamir sharing over GF(256)).  The crate calls are modelled  *)
(* by what the crates compute; each definition names the call it models.   *)
(*                                                                         *)
(* A phrase is a sequence of word numbers: 0..2047 is a word of the        *)
(* English word list, UnknownWord a token that is not in the list.         *)
(* A byte string is a sequence of 0..255.                                  *)
(***************************************************************************)
EXTENDS Integers, Sequences, FiniteSets, TLC

(* ------------------------------ bounds --------------------------------- *)

\* largest small share count tried by split (255 is tried as well)
MaxShards == 3

\* longest stdin typed line by line
MaxLines == 3

\* number of random streams the dealer's rng is drawn from
NumRngStreams == 2

(* ------------------------- program constants --------------------------- *)

\* u8: the type of num_shards, threshold, the shard index, and of the
\* value `shares.len() as u8` is cast to
U8Max == 255

U8Mod == 256

\* the field polynomial x^8+x^4+x^3+x^2+1 of the sharks tables
FieldPoly == 285

\* number of words of the BIP39 word list
WordListLen == 2048

\* bits per mnemonic word
WordBits == 11

\* a token that is not in the word list
UnknownWord == 2048

\* capacity of the word array of a Mnemonic
MAX_NB_WORDS == 24

\* filler of the unused entries of a Mnemonic's word array
EOF_WORD == 65535

(* --------------------------- small helpers ----------------------------- *)

Min(a, b) == IF a <= b THEN a ELSE b

\* the sequence f with every element evaluated (a function constructor is
\* otherwise evaluated anew at each application)
Vec(f) == f \o <<>>

RECURSIVE Pow2(_)
Pow2(n) == IF n = 0 THEN 1 ELSE 2 * Pow2(n - 1)

\* bit k (0 = least significant) of the natural number v
Bit(v, k) == (v \div Pow2(k)) % 2

RECURSIVE XorBits(_, _, _)
XorBits(a, b, k) ==
    IF k = 0 THEN 0
    ELSE 2 * XorBits(a \div 2, b \div 2, k - 1) + ((a + b) % 2)

\* u8 ^ u8, tabulated once
XorTable == [a \in 0..U8Max |-> [b \in 0..U8Max |-> XorBits(a, b, 8)]]

(* ------------------------- sharks: GF(256) ----------------------------- *)

\* multiplication by x modulo the field polynomial
XTimeTable ==
    [a \in 0..U8Max |->
        IF 2 * a >= U8Mod THEN XorBits(2 * a, FieldPoly, 9) ELSE 2 * a]

\* x^k modulo the field polynomial, k in 0..14
RECURSIVE XPow(_)
XPow(k) == IF k = 0 THEN 1 ELSE XTimeTable[XPow(k - 1)]

XPowTable == [k \in 0..14 |-> XPow(k)]

\* coefficient k of the carry-less product of the polynomials a and b
ClmulBit(a, b, k) ==
    Cardinality({i \in 0..7 : /\ k - i \in 0..7
                               /\ Bit(a, i) = 1
                               /\ Bit(b, k - i) = 1}) % 2

\* bit m of the product of a and b reduced modulo the field polynomial
MulBit(a, b, m) ==
    Cardinality({k \in 0..14 : /\ Bit(XPowTable[k], m) = 1
                                /\ ClmulBit(a, b, k) = 1}) % 2

\* the field product computed bit by bit (used to build the tables)
MulShift(a, b) ==
    MulBit(a, b, 0) + 2 * MulBit(a, b, 1) + 4 * MulBit(a, b, 2)
    + 8 * MulBit(a, b, 3) + 16 * MulBit(a, b, 4) + 32 * MulBit(a, b, 5)
    + 64 * MulBit(a, b, 6) + 128 * MulBit(a, b, 7)

\* powers of the generator 2, over one period of the multiplicative group
RECURSIVE PowShift(_)
PowShift(n) ==
    IF n = 0 THEN 1
    ELSE LET h == PowShift(n \div 2)
             q == MulShift(h, h)
         IN  IF n % 2 = 1 THEN XTimeTable[q] ELSE q

ExpPeriod == [i \in 0..254 |-> PowShift(i)]

\* EXP_TABLE[i] = 2^i in the field, i in 0..509, stored at position i+1
EXP_TABLE == [i \in 1..510 |-> ExpPeriod[(i - 1) % 255]]

\* LOG_TABLE[v], with the table's entry 0 for v = 0
LOG_TABLE ==
    [v \in 0..U8Max |->
        IF v = 0 THEN 0 ELSE CHOOSE i \in 0..254 : EXP_TABLE[i + 1] = v]

\* impl Add for GF256 and impl Sub for GF256: both are xor
GFAdd(a, b) == XorTable[a][b]

GFSub(a, b) == XorTable[a][b]

\* impl Mul for GF256
GFMul(a, b) ==
    IF a = 0 \/ b = 0 THEN 0 ELSE EXP_TABLE[LOG_TABLE[a] + LOG_TABLE[b] + 1]

\* impl Div for GF256
GFDiv(a, b) ==
    IF a = 0 THEN 0 ELSE EXP_TABLE[LOG_TABLE[a] + 255 - LOG_TABLE[b] + 1]

\* Iterator::sum over GF256 of the elements s[lo..hi] (0 when empty)
RECURSIVE GFSum(_, _, _)
GFSum(s, lo, hi) ==
    IF lo > hi THEN 0
    ELSE IF lo = hi THEN s[lo]
    ELSE LET mid == (lo + hi) \div 2
         IN  GFAdd(GFSum(s, lo, mid), GFSum(s, mid + 1, hi))

\* Iterator::product over GF256 of the elements s[lo..hi] (1 when empty)
RECURSIVE GFProduct(_, _, _)
GFProduct(s, lo, hi) ==
    IF lo > hi THEN 1
    ELSE IF lo = hi THEN s[lo]
    ELSE LET mid == (lo + hi) \div 2
         IN  GFMul(GFProduct(s, lo, mid), GFProduct(s, mid + 1, hi))

(* --------------------------- bip39: codec ------------------------------ *)

\* Stand-in for the first byte of SHA-256(entropy), which from_entropy and
\* parse_in take the checksum bits from: a fixed function of all the bytes
\* and of the length.
Sha256FirstByte(entropy) ==
    GFAdd(GFSum([i \in 1..Len(entropy) |-> GFMul(entropy[i], i + 1)],
                1, Len(entropy)),
          (Len(entropy) * 7) % U8Mod)

\* entropy lengths from_entropy accepts: 128..256 bits, a multiple of 32
ValidEntropyLen(n) == (n * 8) % 32 = 0 /\ n * 8 >= 128 /\ n * 8 <= 256

\* word counts parse_in accepts
ValidWordCount(n) == n % 3 = 0 /\ n >= 12 /\ n <= 24

\* bit k (1 = first) of entropy followed by the checksum byte cs
CodecBit(entropy, cs, k) ==
    IF k <= 8 * Len(entropy)
    THEN Bit(entropy[((k - 1) \div 8) + 1], 7 - ((k - 1) % 8))
    ELSE Bit(cs, 7 - (k - 8 * Len(entropy) - 1))

\* the word made of the 11 bits that follow bit position base
WordAt(entropy, cs, base) ==
    LET b(j) == CodecBit(entropy, cs, base + j)
    IN  1024 * b(1) + 512 * b(2) + 256 * b(3) + 128 * b(4) + 64 * b(5)
        + 32 * b(6) + 16 * b(7) + 8 * b(8) + 4 * b(9) + 2 * b(10) + b(11)

\* Mnemonic: the word array, filled up with EOF_WORD
MnemonicOf(words) ==
    Vec([i \in 1..MAX_NB_WORDS |->
            IF i <= Len(words) THEN words[i] ELSE EOF_WORD])

\* Mnemonic::word_count
word_count(m) == Cardinality({i \in 1..MAX_NB_WORDS : m[i] # EOF_WORD})

\* Mnemonic::to_string: the words before the filler, joined by one space
to_string(m) == Vec([i \in 1..word_count(m) |-> m[i]])

\* Mnemonic::from_entropy
from_entropy(entropy) ==
    IF ~ValidEntropyLen(Len(entropy))
    THEN [ok |-> FALSE, err |-> "BadEntropyBitCount"]
    ELSE LET cs == Sha256FirstByte(entropy)
             nw == (Len(entropy) * 3) \div 4
         IN  [ok |-> TRUE,
              mnemonic |-> MnemonicOf(Vec([w \in 1..nw |->
                               WordAt(entropy, cs, WordBits * (w - 1))]))]

\* bit k (1 = first) of the concatenated 11-bit words
PhraseBit(words, k) ==
    Bit(words[((k - 1) \div WordBits) + 1],
        WordBits - 1 - ((k - 1) % WordBits))

\* the byte made of the 8 bits that follow bit position base
ByteAt(words, base) ==
    LET b(j) == PhraseBit(words, base + j)
    IN  128 * b(1) + 64 * b(2) + 32 * b(3) + 16 * b(4) + 8 * b(5)
        + 4 * b(6) + 2 * b(7) + b(8)

\* the entropy bytes carried by a word sequence (checksum bits dropped)
EntropyOfWords(words) ==
    Vec([i \in 1..((Len(words) * 4) \div 3) |-> ByteAt(words, 8 * (i - 1))])

\* Mnemonic::to_entropy
to_entropy(m) == EntropyOfWords(to_string(m))

\* the checksum bits carried by a word sequence, as a number
ChecksumOfWords(words) ==
    LET nb == Len(words) \div 3
        eb == Len(words) * WordBits - nb
    IN  IF nb = 8 THEN ByteAt(words, eb)
        ELSE ByteAt(words, eb - (8 - nb)) % Pow2(nb)

\* Mnemonic::parse_in(Language::English, phrase)
parse_in(phrase) ==
    IF ~ValidWordCount(Len(phrase))
    THEN [ok |-> FALSE, err |-> "BadWordCount"]
    ELSE IF \E i \in 1..Len(phrase) : phrase[i] \notin 0..(WordListLen - 1)
    THEN [ok |-> FALSE, err |-> "UnknownWord"]
    ELSE LET entropy == EntropyOfWords(phrase)
             nb == Len(phrase) \div 3
         IN  IF ChecksumOfWords(phrase)
                  # Sha256FirstByte(entropy) \div Pow2(8 - nb)
             THEN [ok |-> FALSE, err |-> "InvalidChecksum"]
             ELSE [ok |-> TRUE, mnemonic |-> MnemonicOf(phrase)]

(* ------------------------- sharks: sharing ----------------------------- *)

\* the range random_polynomial samples its coefficients from:
\* Uniform::new_inclusive(1, 255)
DealerCoefs == 1..U8Max

\* draw number d (1 = first) of the thread rng, for the rng stream r
RngDraw(r, d) == ((r * 101 + d * 37 + r * d * 13) % U8Max) + 1

\* math::random_polynomial(s, k, rng), with the rng at draw number first:
\* k-1 sampled coefficients, then the secret byte
random_polynomial(s, k, r, first) ==
    Vec([i \in 1..k |-> IF i < k THEN RngDraw(r, first + i - 1) ELSE s])

\* the fold of get_evaluator over the first n coefficients of poly:
\* acc * x + c, starting from 0
RECURSIVE EvalPoly(_, _, _)
EvalPoly(poly, x, n) ==
    IF n = 0 THEN 0
    ELSE GFAdd(GFMul(EvalPoly(poly, x, n - 1), x), poly[n])

\* Sharks(threshold).dealer(secret): one polynomial per secret byte
DealerPolys(threshold, secret, r) ==
    Vec([i \in 1..Len(secret) |->
            random_polynomial(secret[i], threshold, r,
                              (i - 1) * (threshold - 1) + 1)])

\* math::get_evaluator(polys).take(n): the shares at x = 1, 2, ...
\* (the evaluator stops after x = 255)
EvaluatorTake(polys, n) ==
    Vec([x \in 1..Min(n, U8Max) |->
            [x |-> x,
             y |-> Vec([i \in 1..Len(polys) |->
                           EvalPoly(polys[i], x, Len(polys[i]))])]])

\* the dealer built with one coefficient too many
dealer_take_ExtraDegree(threshold, secret, r, n) ==
    EvaluatorTake(DealerPolys(threshold + 1, secret, r), n)

\* Sharks(threshold).dealer(secret).take(n), with the rng stream r
dealer_take(threshold, secret, r, n) ==
    EvaluatorTake(DealerPolys(threshold, secret, r), n)

\* Share::try_from(bytes)
ShareTryFrom(bytes) ==
    IF Len(bytes) < 2
    THEN [ok |-> FALSE, err |-> "A Share must be at least 2 bytes long"]
    ELSE [ok |-> TRUE, share |-> [x |-> bytes[1], y |-> Tail(bytes)]]

\* the factor of share i in math::interpolate: the product, over the shares
\* j whose x differs from x_i, of x_j / (x_j - x_i)
LagrangeBasis(shares, i) ==
    GFProduct([j \in 1..Len(shares) |->
                  IF shares[j].x # shares[i].x
                  THEN GFDiv(shares[j].x, GFSub(shares[j].x, shares[i].x))
                  ELSE 1],
              1, Len(shares))

\* math::interpolate(shares)
interpolate(shares) ==
    LET basis == Vec([i \in 1..Len(shares) |-> LagrangeBasis(shares, i)])
    IN  Vec([s \in 1..Len(shares[1].y) |->
                GFSum([i \in 1..Len(shares) |->
                          GFMul(basis[i], shares[i].y[s])],
                      1, Len(shares))])

\* Sharks(threshold).recover(shares)
sharks_recover(threshold, shares) ==
    LET keys == {shares[i].x : i \in 1..Len(shares)}
    IN  IF \E i \in 1..Len(shares) : Len(shares[i].y) # Len(shares[1].y)
        THEN [ok |-> FALSE, err |-> "All shares must have the same length"]
        ELSE IF keys = {} \/ Cardinality(keys) < threshold
        THEN [ok |-> FALSE,
              err |-> "Not enough shares to recover original secret"]
        ELSE [ok |-> TRUE, secret |-> interpolate(shares)]

(* ------------------------ text of index tokens ------------------------- *)

\* the value of a decimal digit character
DigitVal ==
    [c \in {"0", "1", "2", "3", "4", "5", "6", "7", "8", "9"} |->
        CASE c = "0" -> 0 [] c = "1" -> 1 [] c = "2" -> 2 [] c = "3" -> 3
          [] c = "4" -> 4 [] c = "5" -> 5 [] c = "6" -> 6 [] c = "7" -> 7
          [] c = "8" -> 8 [] c = "9" -> 9]

DigitChar == <<"0", "1", "2", "3", "4", "5", "6", "7", "8", "9">>

\* the digits loop of str::parse::<u8>: every character must be a digit and
\* the value must stay within u8
RECURSIVE ParseDigits(_, _, _)
ParseDigits(tok, i, acc) ==
    IF i > Len(tok) THEN [ok |-> TRUE, val |-> acc]
    ELSE IF tok[i] \notin DOMAIN DigitVal
    THEN [ok |-> FALSE, err |-> "InvalidDigit"]
    ELSE IF acc * 10 + DigitVal[tok[i]] > U8Max
    THEN [ok |-> FALSE, err |-> "PosOverflow"]
    ELSE ParseDigits(tok, i + 1, acc * 10 + DigitVal[tok[i]])

\* parts[0].parse::<u8>(): tok is the token's characters; one leading "+"
\* is allowed, a lone sign or an empty token is not
ParseU8(tok) ==
    IF tok = <<>> THEN [ok |-> FALSE, err |-> "Empty"]
    ELSE IF tok = <<"+">> \/ tok = <<"-">>
    THEN [ok |-> FALSE, err |-> "InvalidDigit"]
    ELSE IF tok[1] = "+" THEN ParseDigits(tok, 2, 0)
    ELSE ParseDigits(tok, 1, 0)

\* "{}" of a u8: its decimal digits, no leading zero
FormatU8(n) ==
    IF n >= 100
    THEN <<DigitChar[(n \div 100) + 1], DigitChar[((n \div 10) % 10) + 1],
           DigitChar[(n % 10) + 1]>>
    ELSE IF n >= 10
    THEN <<DigitChar[(n \div 10) + 1], DigitChar[(n % 10) + 1]>>
    ELSE <<DigitChar[n + 1]>>

(* ------------------------------ main.rs -------------------------------- *)

\* struct MnemonicShard
MnemonicShard(index, mnemonic) == [index |-> index, mnemonic |-> mnemonic]

\* what split_command and recover_command return
Err(msg) == [ok |-> FALSE, err |-> msg]

\* a shard whose index is counted from 0
ShardOfShare_ZeroBased(share) ==
    MnemonicShard(share.x - 1, from_entropy(share.y).mnemonic)

\* the shard pushed for one dealt share (the body of the loop of
\* split_command); its from_entropy cannot fail once the seed is parsed
ShardOfShare(share) ==
    MnemonicShard(share.x, from_entropy(share.y).mnemonic)

\* split_command after its threshold check: parse the seed phrase, deal,
\* convert each share.  work lists the library calls made, in order.
SplitBody(seed_phrase, num_shards, threshold, r) ==
    LET parsed == parse_in(seed_phrase)
    IN  IF ~parsed.ok
        THEN [ok |-> FALSE, work |-> <<"parse_in">>,
              err |-> "Invalid seed phrase"]
        ELSE LET entropy == to_entropy(parsed.mnemonic)
                 shares == dealer_take(threshold, entropy, r, num_shards)
             IN  IF \E i \in 1..Len(shares) : ~from_entropy(shares[i].y).ok
                 THEN [ok |-> FALSE, work |-> <<"parse_in", "dealer">>,
                       err |-> "Failed to convert shard to phrase"]
                 ELSE [ok |-> TRUE,
                       work |-> <<"parse_in", "dealer", "from_entropy">>,
                       shards |-> Vec([i \in 1..Len(shares) |->
                                          ShardOfShare(shares[i])])]

ThresholdError ==
    [ok |-> FALSE, work |-> <<>>,
     err |-> "Threshold cannot be greater than the number of shards"]

\* split_command with the threshold check made after the work
split_command_LateCheck(seed_phrase, num_shards, threshold, r) ==
    IF ~SplitBody(seed_phrase, num_shards, threshold, r).ok
    THEN SplitBody(seed_phrase, num_shards, threshold, r)
    ELSE IF threshold > num_shards THEN ThresholdError
    ELSE SplitBody(seed_phrase, num_shards, threshold, r)

\* split_command(seed_phrase, num_shards, threshold), with the rng stream r
\* the dealer draws from
split_command(seed_phrase, num_shards, threshold, r) ==
    IF threshold > num_shards THEN ThresholdError
    ELSE SplitBody(seed_phrase, num_shards, threshold, r)

\* the line run() prints for a shard: "{index} {mnemonic}"
ShardLine(shard) ==
    [index |-> FormatU8(shard.index), words |-> to_string(shard.mnemonic)]

\* one iteration of the loop of parse_recover_args on a line of stdin:
\* index is the first whitespace-separated part (<<>> when the line has no
\* part at all), words the parts after it
ParseLine(line) ==
    LET nparts == (IF line.index = <<>> THEN 0 ELSE 1) + Len(line.words)
    IN  IF nparts < 2 THEN Err("Invalid shard format")
        ELSE IF ~ParseU8(line.index).ok THEN Err("Invalid shard number")
        ELSE IF ~parse_in(line.words).ok THEN Err("Invalid mnemonic")
        ELSE [ok |-> TRUE,
              shard |-> MnemonicShard(ParseU8(line.index).val,
                                      parse_in(line.words).mnemonic)]

\* the bytes of a share without the index byte in front
ShareBytes_NoIndex(shard) ==
    to_entropy(parse_in(to_string(shard.mnemonic)).mnemonic)

\* the bytes recover_command builds a share from: the index byte followed
\* by the entropy of the shard's phrase
ShareBytes(shard) ==
    <<shard.index>> \o to_entropy(parse_in(to_string(shard.mnemonic)).mnemonic)

\* a threshold that is never below 2
LenAsU8_AtLeastTwo(shares) ==
    IF Len(shares) % U8Mod < 2 THEN 2 ELSE Len(shares) % U8Mod

\* shares.len() as u8
LenAsU8(shares) == Len(shares) % U8Mod

\* recover_command(shards).  sharks lists the thresholds Sharks was built
\* with (none when recover_command returned before building it).
recover_command(shards) ==
    IF \E i \in 1..Len(shards) : ~parse_in(to_string(shards[i].mnemonic)).ok
    THEN [ok |-> FALSE, err |-> "Invalid shard", sharks |-> <<>>]
    ELSE IF \E i \in 1..Len(shards) : ~ShareTryFrom(ShareBytes(shards[i])).ok
    THEN [ok |-> FALSE, err |-> "Failed to convert shard bytes",
          sharks |-> <<>>]
    ELSE LET shares == Vec([i \in 1..Len(shards) |->
                               ShareTryFrom(ShareBytes(shards[i])).share])
             recovered == sharks_recover(LenAsU8(shares), shares)
         IN  IF ~recovered.ok
             THEN [ok |-> FALSE, err |-> "Failed to recover secret",
                   sharks |-> <<LenAsU8(shares)>>]
             ELSE IF ~from_entropy(recovered.secret).ok
             THEN [ok |-> FALSE, sharks |-> <<LenAsU8(shares)>>,
                   err |-> "Failed to convert recovered secret to phrase"]
             ELSE [ok |-> TRUE, sharks |-> <<LenAsU8(shares)>>,
                   phrase |-> to_string(from_entropy(recovered.secret).mnemonic)]

(* ------------------------------ inputs --------------------------------- *)

\* entropy number k of n bytes
SeedEntropy(k, n) ==
    Vec([i \in 1..n |-> (i * (16 * k + 1) + 77 * k + n) % U8Mod])

PhraseOfEntropy(e) == to_string(from_entropy(e).mnemonic)

\* one seed phrase for each entropy length
ValidSeeds ==
    {PhraseOfEntropy(SeedEntropy(1, n)) : n \in {16, 20, 24, 28, 32}}

\* a phrase whose last word (and so its checksum) is wrong
BadChecksum(phrase) ==
    [phrase EXCEPT ![Len(phrase)] = (phrase[Len(phrase)] + 1) % WordListLen]

\* phrases parse_in rejects: wrong checksum, unknown word, bad word count
InvalidSeeds ==
    LET good == PhraseOfEntropy(SeedEntropy(1, 16))
    IN  {BadChecksum(good), [good EXCEPT ![3] = UnknownWord],
         SubSeq(good, 1, 11)}

ForeignPhrase16 == PhraseOfEntropy(SeedEntropy(2, 16))

ForeignPhrase24 == PhraseOfEntropy(SeedEntropy(2, 24))

\* lines of stdin that parse, and are not lines the split printed
ForeignShardLines ==
    {[index |-> <<"0">>, words |-> ForeignPhrase16],
     [index |-> <<"9">>, words |-> ForeignPhrase24]}

\* lines of stdin that do not parse
MalformedLines ==
    {[index |-> <<"a", "b", "c">>, words |-> <<5, 6>>],
     [index |-> <<"2", "5", "6">>, words |-> ForeignPhrase16],
     [index |-> <<"-", "1">>, words |-> ForeignPhrase16],
     [index |-> <<"7">>, words |-> <<>>],
     [index |-> <<>>, words |-> <<>>],
     [index |-> <<"1">>, words |-> BadChecksum(ForeignPhrase16)]}

\* numbers of lines of a piped stdin: around the range of u8
PipeTotals == {U8Max, U8Mod, U8Mod + 1}

(* --------------------------- state machine ----------------------------- *)

VARIABLES
    pc,              \* "start", "split_done", "reading", "done"
    feed,            \* how stdin of recover is produced
    seed_phrase,     \* arguments of the split
    num_shards,
    threshold,
    rng,             \* the rng stream the dealer drew from
    split_result,    \* what split_command returned
    stdout,          \* the lines run() printed for the split
    line,            \* the line parse_recover_args read last
    shards,          \* the Vec parse_recover_args builds
    recover_result   \* what the recover subcommand ended with

vars == <<pc, feed, seed_phrase, num_shards, threshold, rng, split_result,
          stdout, line, shards, recover_result>>

NotRun == [ok |-> FALSE, err |-> "not run", sharks |-> <<>>, work |-> <<>>]

NoLine == [index |-> <<>>, words |-> <<>>]

InitWith(f) ==
    /\ pc = "start"
    /\ feed = f
    /\ seed_phrase = <<>>
    /\ num_shards = 0
    /\ threshold = 0
    /\ rng = 0
    /\ split_result = NotRun
    /\ stdout = <<>>
    /\ line = NoLine
    /\ shards = <<>>
    /\ recover_result = NotRun

\* stdin of recover is typed line by line
Init == InitWith([kind |-> "typed", total |-> 0])

\* stdin of recover is the printed shard file, repeated up to total lines
InitPipe == \E n \in PipeTotals : InitWith([kind |-> "piped", total |-> n])

FirstSeed == PhraseOfEntropy(SeedEntropy(1, 16))

\* share counts and thresholds tried: thresholds go one above the largest
\* small share count
SmallCounts == 2..MaxShards

Thresholds == 2..(MaxShards + 1)

\* the arguments of split tried, <<seed phrase, shards, threshold, rng>>:
\* the first seed with every small count, every threshold and every rng
\* stream, and with the largest u8 as count; every other seed with the
\* largest small count
SplitArgs ==
    IF feed.kind = "typed"
    THEN ({FirstSeed} \X SmallCounts \X Thresholds \X (1..NumRngStreams))
         \cup ({FirstSeed} \X {U8Max} \X Thresholds \X {1})
         \cup (((ValidSeeds \cup InvalidSeeds) \ {FirstSeed})
               \X {MaxShards} \X {MaxShards - 1, MaxShards + 1} \X {1})
    ELSE {FirstSeed} \X SmallCounts \X Thresholds \X (1..NumRngStreams)

\* run(), subcommand split: split_command, then one line per shard
RunSplit ==
    /\ pc = "start"
    /\ \E a \in SplitArgs :
          \E res \in {split_command(a[1], a[2], a[3], a[4])} :
              /\ seed_phrase' = a[1]
              /\ num_shards' = a[2]
              /\ threshold' = a[3]
              /\ rng' = a[4]
              /\ split_result' = res
              /\ stdout' = IF res.ok
                           THEN Vec([i \in 1..Len(res.shards) |->
                                        ShardLine(res.shards[i])])
                           ELSE <<>>
    /\ pc' = "split_done"
    /\ UNCHANGED <<feed, line, shards, recover_result>>

\* run(), subcommand recover: parse_recover_args starts with an empty Vec
StartRecover ==
    /\ pc = "split_done"
    /\ pc' = "reading"
    /\ shards' = <<>>
    /\ UNCHANGED <<feed, seed_phrase, num_shards, threshold, rng,
                   split_result, stdout, line, recover_result>>

\* the printed lines a typed stdin may repeat: the first ones and the last
TypedPicks == {i \in 1..Len(stdout) : i <= MaxShards \/ i = Len(stdout)}

\* whether a line the split did not print has been read
HasForeign ==
    \E i \in 1..Len(shards) :
        \A j \in 1..Len(stdout) : ShardLine(shards[i]) # stdout[j]

\* the lines stdin may deliver next: a typed stdin holds at most MaxLines
\* lines and at most one line the split did not print
NextLines ==
    IF feed.kind = "typed"
    THEN IF Len(shards) >= MaxLines THEN {}
         ELSE {stdout[i] : i \in TypedPicks} \cup MalformedLines
              \cup (IF HasForeign THEN {} ELSE ForeignShardLines)
    ELSE IF Len(shards) >= feed.total \/ stdout = <<>> THEN {}
         ELSE {stdout[(Len(shards) % Len(stdout)) + 1]}

\* whether stdin may end here
AtEndOfInput ==
    feed.kind = "typed" \/ Len(shards) = feed.total \/ stdout = <<>>

\* one iteration of the loop of parse_recover_args
ReadLine ==
    /\ pc = "reading"
    /\ \E l \in NextLines :
          \E p \in {ParseLine(l)} :
              /\ line' = l
              /\ IF p.ok
                 THEN /\ shards' = Append(shards, p.shard)
                      /\ pc' = "reading"
                      /\ UNCHANGED recover_result
                 ELSE /\ shards' = <<>>
                      /\ pc' = "done"
                      /\ recover_result' =
                             [ok |-> FALSE, err |-> p.err, sharks |-> <<>>]
    /\ UNCHANGED <<feed, seed_phrase, num_shards, threshold, rng,
                   split_result, stdout>>

\* stdin ends: parse_recover_args returns the Vec, recover_command runs
EndOfInput ==
    /\ pc = "reading"
    /\ AtEndOfInput
    /\ recover_result' = recover_command(shards)
    /\ pc' = "done"
    /\ UNCHANGED <<feed, seed_phrase, num_shards, threshold, rng,
                   split_result, stdout, line, shards>>

Next == RunSplit \/ StartRecover \/ ReadLine \/ EndOfInput

Spec == Init /\ [][Next]_vars

SpecPipe == InitPipe /\ [][Next]_vars

(* ------------------------------ properties ----------------------------- *)

\* the messages parse_recover_args fails with
ParseErrors == {"Invalid shard format", "Invalid shard number",
                "Invalid mnemonic"}

\* recover_command has run on the Vec in shards
Recovered ==
    /\ pc = "done"
    /\ ~(~recover_result.ok /\ recover_result.err \in ParseErrors)

\* every shard read is one the split returned
AllDealt ==
    /\ split_result.ok
    /\ \A i \in 1..Len(shards) :
          \E j \in 1..Len(split_result.shards) :
              shards[i] = split_result.shards[j]

\* no two shards read carry the same index
DistinctIndices ==
    \A i, j \in 1..Len(shards) : i # j => shards[i].index # shards[j].index

\* the shards read do not all carry values of one length
MixedLengths ==
    \E i, j \in 1..Len(shards) :
        word_count(shards[i].mnemonic) # word_count(shards[j].mnemonic)

\* C1: split/recover round trip: recover_command applied to exactly
\* threshold pairwise-distinct shards of a split, in any order, returns
\* the seed phrase that was split.
C1_RoundTrip ==
    (Recovered /\ AllDealt /\ DistinctIndices /\ Len(shards) = threshold)
        => (recover_result.ok /\ recover_result.phrase = seed_phrase)

\* threshold shards, not the first ones and not in the printed order, of a
\* split into more shards than the threshold, gave the seed phrase back
C1_Witness ==
    /\ Recovered /\ AllDealt /\ DistinctIndices
    /\ Len(shards) = threshold
    /\ threshold < num_shards
    /\ shards[1].index > shards[2].index
    /\ recover_result.ok
    /\ recover_result.phrase = seed_phrase

\* the first threshold shards of the split, in the printed order
ReferenceShards == SubSeq(split_result.shards, 1, threshold)

\* C2: interpolation consistency: every list of pairwise-distinct shards
\* of one split that holds at least threshold shards makes
\* recover_command return the phrase it returns for the first threshold
\* shards; so any two such lists give the identical phrase.
C2_Consistency ==
    (Recovered /\ AllDealt /\ DistinctIndices /\ Len(shards) >= threshold)
        => /\ recover_result.ok
           /\ recover_command(ReferenceShards).ok
           /\ recover_result.phrase = recover_command(ReferenceShards).phrase

\* more shards than the threshold were supplied, out of order
C2_Witness ==
    /\ Recovered /\ AllDealt /\ DistinctIndices
    /\ Len(shards) > threshold
    /\ shards # SubSeq(split_result.shards, 1, Len(shards))
    /\ recover_result.ok
    /\ recover_result.phrase = recover_command(ReferenceShards).phrase

\* the polynomial the dealer builds for the secret byte s and the
\* coefficients c (c[1] multiplies the highest power)
CandidatePoly(c, s) == Vec([i \in 1..(Len(c) + 1) |->
                               IF i <= Len(c) THEN c[i] ELSE s])

\* the number of coefficient choices of the dealer under which the secret
\* byte s gives, at position i, the values the shards numbered in seen show
ConsistentChoices(s, i, seen) ==
    Cardinality({c \in [1..(threshold - 1) -> DealerCoefs] :
        \A j \in seen :
            EvalPoly(CandidatePoly(c, s), split_result.shards[j].index,
                     threshold)
              = to_entropy(split_result.shards[j].mnemonic)[i]})

\* C3: hiding, for the splits with threshold 2: at every byte position,
\* the value any single shard shows is produced by the same number of
\* coefficient choices whatever the secret byte is.
C3_Hiding ==
    (pc = "split_done" /\ split_result.ok /\ threshold = 2)
        => \A j \in TypedPicks :
             \A i \in 1..Len(to_entropy(split_result.shards[j].mnemonic)) :
               \A s \in 0..U8Max :
                 ConsistentChoices(s, i, {j}) = ConsistentChoices(0, i, {j})

\* C4: a threshold above the share count makes split_command fail with the
\* threshold error before any other work: no library call is made (the
\* seed phrase is not parsed, nothing is dealt) and nothing is printed,
\* whether the seed phrase is valid or not.
C4_ThresholdFirst ==
    (pc # "start" /\ threshold > num_shards)
        => /\ ~split_result.ok
           /\ split_result.err
                = "Threshold cannot be greater than the number of shards"
           /\ split_result.work = <<>>
           /\ stdout = <<>>

\* a threshold above the share count was given with a seed phrase that
\* does not parse
C4_Witness ==
    /\ pc = "split_done"
    /\ threshold > num_shards
    /\ ~parse_in(seed_phrase).ok
    /\ ~split_result.ok
    /\ split_result.work = <<>>

\* C5: recover_command fails whenever the shards do not all have the same
\* value length or two of them carry the same index.
C5_Inconsistent ==
    (Recovered /\ (MixedLengths \/ ~DistinctIndices)) => ~recover_result.ok

\* the index token is the decimal text of an integer in 1..255
IndexIn1To255(tok) == \E n \in 1..U8Max : tok = FormatU8(n)

\* C6: a shard line whose leading token is not an integer in 1..255 is
\* rejected with the invalid-index error and no share is made of it.
C6_InvalidIndex ==
    (pc \in {"reading", "done"} /\ line.index # <<>> /\ line.words # <<>>
       /\ ~IndexIn1To255(line.index))
        => /\ pc = "done"
           /\ ~recover_result.ok
           /\ recover_result.err = "Invalid shard number"

\* C7: for a valid seed phrase and 2 <= threshold <= num_shards <= 255,
\* split_command returns exactly num_shards shards, shard i carries the
\* index i (so the indices are nonzero, within 1..255 and distinct), and
\* every shard's value has the byte length of the seed's entropy.
C7_SplitOutput ==
    (pc = "split_done" /\ parse_in(seed_phrase).ok
       /\ 2 <= threshold /\ threshold <= num_shards /\ num_shards <= U8Max)
        => /\ split_result.ok
           /\ Len(split_result.shards) = num_shards
           /\ \A i \in 1..Len(split_result.shards) :
                 /\ split_result.shards[i].index = i
                 /\ split_result.shards[i].index \in 1..U8Max
                 /\ Len(to_entropy(split_result.shards[i].mnemonic))
                      = Len(to_entropy(parse_in(seed_phrase).mnemonic))

\* a split into 255 shards returned them
C7_Witness ==
    /\ pc = "split_done"
    /\ num_shards = U8Max
    /\ split_result.ok
    /\ Len(split_result.shards) = U8Max
    /\ split_result.shards[U8Max].index = U8Max

\* C8: recovery below the threshold is not detected: a non-empty list of
\* fewer than threshold pairwise-distinct shards of a split makes
\* recover_command return a phrase that parses and has the word count of
\* the shards; a single shard gives back its own phrase.
C8_UnderThreshold ==
    (Recovered /\ AllDealt /\ DistinctIndices
       /\ Len(shards) >= 1 /\ Len(shards) < threshold)
        => /\ recover_result.ok
           /\ parse_in(recover_result.phrase).ok
           /\ Len(recover_result.phrase) = word_count(shards[1].mnemonic)
           /\ (Len(shards) = 1
                 => recover_result.phrase = to_string(shards[1].mnemonic))

\* two shards of a split with threshold 3 gave a phrase, not the seed
C8_Witness ==
    /\ Recovered /\ AllDealt /\ DistinctIndices
    /\ Len(shards) = 2
    /\ threshold = 3
    /\ recover_result.ok
    /\ recover_result.phrase # seed_phrase

\* C9: recover needs two shard lines: with no line or one well-formed line
\* it is rejected and gives no phrase.
C9_MinimumTwoLines ==
    (Recovered /\ Len(shards) < 2) => ~recover_result.ok

\* C10: the threshold handed to Sharks is the number of shards supplied,
\* whatever that number is.
C10_ThresholdIsCount ==
    (Recovered /\ recover_result.sharks # <<>>)
        => recover_result.sharks[1] = Len(shards)

====
